---- MODULE Spec2Model ----
(***************************************************************************)
(* State-machine model of the p2p-music server                             *)
(* (apps/p2p-music/server/server/src/index.ts): the scan-and-pin run       *)
(* (scanAndIndex), the catalog file (loadState / saveState) and the HTTP   *)
(* handlers that drive them.                                               *)
(*                                                                         *)
(* Granularity.  Node runs one callback to completion and then drains the  *)
(* microtask queue before it takes the next I/O event.  One action of the  *)
(* model is therefore one I/O event (a request arriving, parseFile or      *)
(* ipfs.add settling) together with everything the promise reactions do    *)
(* before the next event: p-queue starting the next queued tasks, the      *)
(* Promise.all of scanAndIndex settling, saveState and the response.       *)
(***************************************************************************)
EXTENDS Integers, Sequences, FiniteSets, TLC

\* ---------------------------------------------------------------- bounds
NumFiles == 3        \* audio files that may exist under MUSIC_DIR
MaxSize == 2         \* file sizes are 1..MaxSize
NumRuns == 2         \* POST /api/index requests in a behaviour
MaxChanges == 1      \* file-system events (write / remove) in a behaviour
MaxChunks == 2       \* chunks of a streamed content

\* ------------------------------------------------------ program constants
Concurrency == 2

Files == 1..NumFiles
Sizes == 1..MaxSize
Runs == 1..NumRuns

\* A file of MUSIC_DIR that is not audio; it is always there and never changes.
Cover == 0

VARIABLES
    disk,       \* MUSIC_DIR: path -> size of the file's content (partial function)
    changes,    \* number of file-system events so far
    stateFile,  \* STATE_FILE: [exists, bytes]
    ipfs,       \* main's `ipfs` variable: FALSE is null
    runPc,      \* per activation of the POST /api/index handler
    absFiles,   \* per run: the candidate list of scanAndIndex
    task,       \* per run and file: the queued closure's position and locals
    state,      \* per run: the in-memory catalog `state`
    snap,       \* per run: what loadState returned (history)
    added,      \* per run: the counter `added`
    result,     \* per run: the response sent
    saves,      \* per run: number of saveState calls (history)
    hist,       \* per run: what preceded the run (history)
    last,       \* how the most recent scanAndIndex ended (history)
    crashed,    \* the saveState the process died in, if it did (history)
    badDir,     \* MUSIC_DIR holds a subdirectory that readdirSync cannot read
    scan,       \* per run: what walk and loadState met (history)
    committed,  \* the catalog of the last saveState that completed (history)
    tracks,     \* the GET /api/tracks request
    stream      \* the GET /api/stream/:cid request

vars == <<disk, changes, stateFile, ipfs, runPc, absFiles, task, state, snap,
          added, result, saves, hist, last, crashed, badDir, scan, committed,
          tracks, stream>>

\* ------------------------------------------------------------- file names
Ext(f) == IF f = Cover THEN ".jpg" ELSE IF f % 2 = 1 THEN ".mp3" ELSE ".FLAC"

ToLowerCase(e) == IF e = ".FLAC" THEN ".flac" ELSE e

AUDIO_EXTS == {".mp3", ".flac", ".m4a", ".aac", ".wav", ".ogg", ".opus"}

IsAudioFile(f) == ToLowerCase(Ext(f)) \in AUDIO_EXTS

MimeLookup(f) ==
    CASE ToLowerCase(Ext(f)) = ".mp3" -> "audio/mpeg"
      [] ToLowerCase(Ext(f)) = ".flac" -> "audio/x-flac"
      [] ToLowerCase(Ext(f)) = ".jpg" -> "image/jpeg"
      [] OTHER -> "application/octet-stream"

RECURSIVE SortedSeq(_)
SortedSeq(S) ==
    IF S = {} THEN <<>>
    ELSE LET m == CHOOSE x \in S : \A y \in S : x <= y
         IN  <<m>> \o SortedSeq(S \ {m})

\* walk(MUSIC_DIR): every file, in directory order.
Walk(d) == SortedSeq(DOMAIN d)

\* ------------------------------------------------------------ the catalog
\* The content store names a content by its hash; the model's contents are
\* told apart by their size, and the empty string is <<>>.
NoCid == <<>>
CidOf(content) == <<content>>

Range(s) == {s[i] : i \in 1..Len(s)}

\* state[rel], as the set of the entries under that key (none or one).
EntryOf(st, f) == {st[i] : i \in {j \in 1..Len(st) : st[j].relativePath = f}}

HasEntry(st, f) == EntryOf(st, f) # {}

\* Mutant: the assignment replaces the catalog by the one entry.
PutEntry_Replace(st, e) == <<e>>

\* state[rel] = entry: a new key goes last, an old key keeps its place.
PutEntry(st, e) ==
    IF HasEntry(st, e.relativePath)
    THEN [i \in 1..Len(st) |->
             IF st[i].relativePath = e.relativePath THEN e ELSE st[i]]
    ELSE Append(st, e)

\* Mutant: the entry is written without the size stat gave.
NewEntry_NoSize(rel, cid, size, meta) ==
    [relativePath |-> rel, cid |-> cid, size |-> 0, meta |-> meta,
     mime |-> MimeLookup(rel)]

NewEntry(rel, cid, size, meta) ==
    [relativePath |-> rel, cid |-> cid, size |-> size, meta |-> meta,
     mime |-> MimeLookup(rel)]

\* Mutant: the check forgets the cid.
Unchanged_SizeOnly(prev, size) ==
    /\ prev # {}
    /\ \A e \in prev : e.size = size

\* prev && prev.size === stat.size && prev.cid
Unchanged(prev, size) ==
    /\ prev # {}
    /\ \A e \in prev : e.size = size /\ e.cid # NoCid

\* ------------------------------------------------------- the catalog file
Open == [tok |-> "{", e |-> <<>>]
Close == [tok |-> "}", e |-> <<>>]

\* JSON.stringify(state, null, 2): the entries in key order between braces.
Stringify(st) ==
    <<Open>> \o [i \in 1..Len(st) |-> [tok |-> "entry", e |-> <<st[i]>>]] \o <<Close>>

WellFormed(b) ==
    /\ Len(b) >= 2
    /\ b[1] = Open
    /\ b[Len(b)] = Close
    /\ \A i \in 2..(Len(b) - 1) : b[i].tok = "entry"

\* JSON.parse of the file's text; it throws on anything but a whole document.
Parse(b) == [i \in 1..(Len(b) - 2) |-> b[i + 1].e[1]]

Missing == [exists |-> FALSE, bytes |-> <<>>]

\* Mutant: the parser takes the entries that a damaged text still holds.
LoadState_Lenient(file) ==
    IF file.exists
    THEN LET b == SelectSeq(file.bytes, LAMBDA x : x.tok = "entry")
         IN  [i \in 1..Len(b) |-> b[i].e[1]]
    ELSE <<>>

\* Whether readFileSync and JSON.parse both return.
Readable(file) == file.exists /\ WellFormed(file.bytes)

\* try { return JSON.parse(readFileSync) } catch { return {} }
LoadState(file) == IF Readable(file) THEN Parse(file.bytes) ELSE <<>>

SaveState(st) == [exists |-> TRUE, bytes |-> Stringify(st)]

\* Mutant: the run writes its catalog over what the file holds now, keeping
\* the file's entries of other paths.
WriteBack_Merge(st) ==
    SaveState(st \o SelectSeq(LoadState(stateFile),
                              LAMBDA e : ~HasEntry(st, e.relativePath)))

\* saveState(state) of scanAndIndex: the run's own object is written.
WriteBack(st) == SaveState(st)

\* ---------------------------------------------------------------- tasks
\* tries counts the task's calls of ipfs.add (history).
NoTask == [pc |-> "none", size |-> 0, meta |-> FALSE, tries |-> 0]
Queued == [pc |-> "queued", size |-> 0, meta |-> FALSE, tries |-> 0]

Live == {"queued", "parsing", "adding"}
InFlight == {"parsing", "adding"}
Failed == {"failedStat", "failedAdd"}

NumInFlight(t) == Cardinality({f \in Files : t[f].pc \in InFlight})

\* Mutant: the change check looks at every entry of the catalog.
StartTask_AnyEntry(f, st, d) ==
    IF f \notin DOMAIN d
    THEN [pc |-> "failedStat", size |-> 0, meta |-> FALSE, tries |-> 0]
    ELSE IF \E e \in Range(st) : e.size = d[f] /\ e.cid # NoCid
         THEN [pc |-> "skipped", size |-> d[f], meta |-> FALSE, tries |-> 0]
         ELSE [pc |-> "parsing", size |-> d[f], meta |-> FALSE, tries |-> 0]

\* The closure up to its first await: stat, the change check, parseFile called.
StartTask(f, st, d) ==
    IF f \notin DOMAIN d
    THEN [pc |-> "failedStat", size |-> 0, meta |-> FALSE, tries |-> 0]
    ELSE IF Unchanged(EntryOf(st, f), d[f])
         THEN [pc |-> "skipped", size |-> d[f], meta |-> FALSE, tries |-> 0]
         ELSE [pc |-> "parsing", size |-> d[f], meta |-> FALSE, tries |-> 0]

\* Mutant: the queue starts every task at once.
MayStart_NoLimit(t) == TRUE

\* p-queue: whether another queued task may start.
MayStart(t) == NumInFlight(t) < Concurrency

\* p-queue starting queued tasks, first in first out, while it may.
RECURSIVE Fill(_, _, _, _, _)
Fill(t, order, i, st, d) ==
    IF i > Len(order) THEN t
    ELSE IF t[order[i]].pc # "queued" THEN Fill(t, order, i + 1, st, d)
    ELSE IF ~MayStart(t) THEN t
    ELSE Fill([t EXCEPT ![order[i]] = StartTask(order[i], st, d)],
              order, i + 1, st, d)

\* What the Promise.all of scanAndIndex does once the tasks stand as in t.
Outcome(awaiting, t) ==
    IF ~awaiting THEN "detached"
    ELSE IF \E f \in Files : t[f].pc \in Failed THEN "rejected"
    ELSE IF \E f \in Files : t[f].pc \in Live THEN "pending"
    ELSE "resolved"

Err == [ok |-> FALSE, total |-> 0, added |-> 0]
NoResult == [ok |-> FALSE, total |-> 0 - 1, added |-> 0 - 1]

NoCrash == [is |-> FALSE, old |-> <<>>, new |-> <<>>]

\* A run that has answered and has no task left holds nothing that is
\* reachable any more: its objects are collected when the next scan begins.
Collectable(q) ==
    /\ runPc[q] = "returned"
    /\ \A f \in Files : task[q][f].pc \notin Live

Upd(v, r, x, sweep, empty) ==
    [q \in Runs |-> IF q = r THEN x
                    ELSE IF sweep /\ Collectable(q) THEN empty ELSE v[q]]

\* The microtasks after an event of run r that left the tasks as t0, the
\* catalog as st and the counter as a: p-queue starts what it may, and the
\* awaiting scanAndIndex goes on (saveState, return) or throws.
Drain(r, order, t0, st, a, h, awaiting, sv, res, sweep) ==
    LET t == Fill(t0, order, 1, st, disk)
        o == Outcome(awaiting, t)
    IN  /\ task' = Upd(task, r, t, sweep, [f \in Files |-> NoTask])
        /\ state' = Upd(state, r, st, sweep, <<>>)
        /\ added' = Upd(added, r, a, sweep, 0)
        /\ hist' = [hist EXCEPT ![r] = h]
        /\ stateFile' = IF o = "resolved" THEN WriteBack(st) ELSE stateFile
        /\ saves' = [saves EXCEPT ![r] = IF o = "resolved" THEN sv + 1 ELSE sv]
        /\ runPc' = [runPc EXCEPT ![r] =
              CASE o \in {"resolved", "rejected"} -> "returned"
                [] o = "pending" -> "running"
                [] OTHER -> runPc[r]]
        /\ result' = [result EXCEPT ![r] =
              CASE o = "resolved" -> [ok |-> TRUE, total |-> Len(order), added |-> a]
                [] o = "rejected" -> Err
                [] OTHER -> res]
        /\ last' = CASE o = "resolved" -> IF h = "dirty" THEN "ok" ELSE "cleanOk"
                     [] o = "rejected" -> "none"
                     [] OTHER -> last
        /\ crashed' = IF o = "resolved" THEN NoCrash ELSE crashed
        /\ committed' = IF o = "resolved" THEN st ELSE committed

\* scanAndIndex up to its await: walk, filter, loadState, the tasks queued.
ScanOrder == SelectSeq(Walk(disk), IsAudioFile)

ScanTasks == [f \in Files |-> IF f \in Range(ScanOrder) THEN Queued ELSE NoTask]

NoScan == [walkErr |-> FALSE, loadErr |-> FALSE, loads |-> 0, retry |-> {}]

\* The files whose push failed in the run before run r, each with the size
\* that run saw (history).
FailedBefore(r) ==
    IF r = 1 THEN {}
    ELSE {<<f, task[r - 1][f].size>> :
             f \in {g \in Files : task[r - 1][g].pc = "failedAdd"}}

\* readdirSync throws inside walk: scanAndIndex throws before loadState, and
\* the handler's catch answers 500.
WalkThrows(r) ==
    /\ absFiles' = Upd(absFiles, r, <<>>, TRUE, <<>>)
    /\ snap' = Upd(snap, r, <<>>, TRUE, <<>>)
    /\ task' = Upd(task, r, [f \in Files |-> NoTask], TRUE, [f \in Files |-> NoTask])
    /\ state' = Upd(state, r, <<>>, TRUE, <<>>)
    /\ added' = Upd(added, r, 0, TRUE, 0)
    /\ hist' = [hist EXCEPT ![r] = "dirty"]
    /\ saves' = [saves EXCEPT ![r] = 0]
    /\ runPc' = [runPc EXCEPT ![r] = "returned"]
    /\ result' = [result EXCEPT ![r] = Err]
    /\ last' = "none"
    /\ scan' = Upd(scan, r,
          [walkErr |-> TRUE, loadErr |-> FALSE, loads |-> 0, retry |-> FailedBefore(r)],
          TRUE, NoScan)
    /\ UNCHANGED <<stateFile, crashed, committed>>

BeginScan(r) ==
    LET h == CASE last = "cleanOk" -> "afterCleanOk"
               [] last = "ok" -> "afterOk"
               [] OTHER -> "clean"
    IN  IF badDir THEN WalkThrows(r)
        ELSE /\ absFiles' = Upd(absFiles, r, ScanOrder, TRUE, <<>>)
             /\ snap' = Upd(snap, r, LoadState(stateFile), TRUE, <<>>)
             /\ scan' = Upd(scan, r,
                   [walkErr |-> FALSE, loadErr |-> ~Readable(stateFile),
                    loads |-> 1, retry |-> FailedBefore(r)],
                   TRUE, NoScan)
             /\ Drain(r, ScanOrder, ScanTasks, LoadState(stateFile), 0, h, TRUE, 0,
                      NoResult, TRUE)

\* An event of a run that is past BeginScan.
AfterEvent(r, t0, st, a) ==
    /\ Drain(r, absFiles[r], t0, st, a, hist[r], runPc[r] = "running",
             saves[r], result[r], FALSE)
    /\ UNCHANGED <<absFiles, snap, scan>>

\* ---------------------------------------------------------------- actions
\* Run r is the r-th request.
SlotFree(r) == runPc[r] = "idle" /\ \A q \in Runs : q < r => runPc[q] # "idle"

NoRunActive == \A r \in Runs : runPc[r] \notin {"connecting", "running"}

\* POST /api/index arrives (lines 147-150).
Index(r) ==
    /\ SlotFree(r)
    /\ IF ipfs
       THEN BeginScan(r)
       ELSE /\ runPc' = [runPc EXCEPT ![r] = "connecting"]
            /\ absFiles' = [absFiles EXCEPT ![r] = <<>>]
            /\ task' = [task EXCEPT ![r] = [f \in Files |-> NoTask]]
            /\ state' = [state EXCEPT ![r] = <<>>]
            /\ snap' = [snap EXCEPT ![r] = <<>>]
            /\ added' = [added EXCEPT ![r] = 0]
            /\ result' = [result EXCEPT ![r] = NoResult]
            /\ saves' = [saves EXCEPT ![r] = 0]
            /\ hist' = [hist EXCEPT ![r] = "clean"]
            /\ scan' = [scan EXCEPT ![r] = NoScan]
            /\ UNCHANGED <<stateFile, last, crashed, committed>>
    /\ UNCHANGED <<disk, changes, ipfs, badDir, tracks, stream>>

\* ensureIpfs resolves: the handler goes on into scanAndIndex.
ConnectOk(r) ==
    /\ runPc[r] = "connecting"
    /\ ipfs' = TRUE
    /\ BeginScan(r)
    /\ UNCHANGED <<disk, changes, badDir, tracks, stream>>

\* ensureIpfs rejects: the handler's catch answers 500.
ConnectFail(r) ==
    /\ runPc[r] = "connecting"
    /\ runPc' = [runPc EXCEPT ![r] = "refused"]
    /\ result' = [result EXCEPT ![r] = Err]
    /\ UNCHANGED <<disk, changes, stateFile, ipfs, absFiles, task, state, snap,
                   added, saves, hist, last, crashed, badDir, scan, committed,
                   tracks, stream>>

\* Whether parseFile can read a file's tags is a property of the file: the
\* first file's tags may be unreadable.
ParseResults(f) == IF f = 1 THEN BOOLEAN ELSE {TRUE}

\* Mutant: the rejection of parseFile is not caught, and the task throws.
ParseDone_Throw(r, f, ok) ==
    /\ task[r][f].pc = "parsing"
    /\ IF ok
       THEN /\ task' = [task EXCEPT ![r][f] =
                  [pc |-> "adding", size |-> @.size, meta |-> ok, tries |-> @.tries + 1]]
            /\ UNCHANGED <<stateFile, runPc, absFiles, state, snap, added, result,
                           saves, hist, last, crashed, scan, committed>>
       ELSE AfterEvent(r, [task[r] EXCEPT ![f].pc = "failedAdd"], state[r], added[r])
    /\ UNCHANGED <<disk, changes, ipfs, badDir, tracks, stream>>

\* parseFile settles; a rejection is swallowed.  The task opens the read
\* stream and calls ipfs.add.
ParseDone(r, f, ok) ==
    /\ task[r][f].pc = "parsing"
    /\ task' = [task EXCEPT ![r][f] =
          [pc |-> "adding", size |-> @.size, meta |-> ok, tries |-> @.tries + 1]]
    /\ UNCHANGED <<disk, changes, stateFile, ipfs, runPc, absFiles, state, snap,
                   added, result, saves, hist, last, crashed, badDir, scan,
                   committed, tracks, stream>>

AddOkTasks(r, f) == [task[r] EXCEPT ![f].pc = "done"]

\* The store has read the file as it is now and names that content.
AddOkState(r, f) ==
    PutEntry(state[r],
             NewEntry(f, CidOf(disk[f]), task[r][f].size, task[r][f].meta))

\* ipfs.add resolves: the entry is written and added is incremented.
AddOk(r, f) ==
    /\ task[r][f].pc = "adding"
    /\ f \in DOMAIN disk
    /\ AfterEvent(r, AddOkTasks(r, f), AddOkState(r, f), added[r] + 1)
    /\ UNCHANGED <<disk, changes, ipfs, badDir, tracks, stream>>

\* Mutant: the failed file's entry is dropped from the catalog.
AddFailState_Drop(r, f) == SelectSeq(state[r], LAMBDA e : e.relativePath # f)

\* Mutant: the task calls ipfs.add again after a rejection.
AddFail_Retry(r, f) ==
    /\ task[r][f].pc = "adding"
    /\ task' = [task EXCEPT ![r][f].tries = @ + 1]
    /\ UNCHANGED <<disk, changes, stateFile, ipfs, runPc, absFiles, state, snap,
                   added, result, saves, hist, last, crashed, badDir, scan,
                   committed, tracks, stream>>

\* The catalog of a run after the throw of a task: the assignment to
\* state[rel] comes after the await, so the throw leaves state as it was.
AddFailState(r, f) == state[r]

\* ipfs.add rejects (the store or the read stream failed): the task throws.
AddFail(r, f) ==
    /\ task[r][f].pc = "adding"
    /\ AfterEvent(r, [task[r] EXCEPT ![f].pc = "failedAdd"], AddFailState(r, f),
                  added[r])
    /\ UNCHANGED <<disk, changes, ipfs, badDir, tracks, stream>>

\* ------------------------------------------------------------ the readers
\* Mutant: the handlers read the catalog object of the run in progress.
ReadCatalog_Memory ==
    IF \E r \in Runs : runPc[r] = "running"
    THEN state[CHOOSE r \in Runs : runPc[r] = "running"]
    ELSE LoadState(stateFile)

\* const state = loadState() of a request handler.
ReadCatalog == LoadState(stateFile)

\* Whether a run in progress holds entries that STATE_FILE does not (history).
UnsavedWork == \E r \in Runs : runPc[r] = "running" /\ state[r] # LoadState(stateFile)

\* GET /api/tracks: the handler is synchronous.
Tracks ==
    /\ tracks.pc = "idle"
    /\ tracks' = [pc |-> "answered", body |-> ReadCatalog, busy |-> UnsavedWork]
    /\ UNCHANGED <<disk, changes, stateFile, ipfs, runPc, absFiles, task, state,
                   snap, added, result, saves, hist, last, crashed, badDir, scan,
                   committed, stream>>

\* The content identifiers a client asks for.
Cids == {CidOf(s) : s \in Sizes}

\* Mutant: the last matching entry is taken.
RECURSIVE FindByCid_Last(_, _)
FindByCid_Last(vals, c) ==
    IF vals = <<>> THEN {}
    ELSE IF vals[Len(vals)].cid = c THEN {vals[Len(vals)]}
    ELSE FindByCid_Last(SubSeq(vals, 1, Len(vals) - 1), c)

\* Object.values(state).find((t) => t.cid === cid): undefined is {}.
RECURSIVE FindByCid(_, _)
FindByCid(vals, c) ==
    IF vals = <<>> THEN {}
    ELSE IF Head(vals).cid = c THEN {Head(vals)}
    ELSE FindByCid(Tail(vals), c)

\* match?.mime || "audio/mpeg"
ContentType(vals, c) ==
    LET match == FindByCid(vals, c)
    IN  IF match = {} \/ \A t \in match : t.mime = ""
        THEN "audio/mpeg"
        ELSE (CHOOSE t \in match : TRUE).mime

\* The handler from loadState to the first await of the for await loop.
StreamOpen(c) ==
    stream' = [pc |-> "streaming", cid |-> c, ct |-> ContentType(ReadCatalog, c),
               seen |-> ReadCatalog, sent |-> 0, busy |-> UnsavedWork]

StreamIdle == <<disk, changes, stateFile, runPc, absFiles, task, state, snap,
                added, result, saves, hist, last, crashed, badDir, scan,
                committed, tracks>>

\* GET /api/stream/:cid arrives.
Stream(c) ==
    /\ stream.pc = "idle"
    /\ IF ipfs THEN StreamOpen(c)
       ELSE stream' = [stream EXCEPT !.pc = "connecting", !.cid = c]
    /\ UNCHANGED ipfs
    /\ UNCHANGED StreamIdle

StreamConnectOk ==
    /\ stream.pc = "connecting"
    /\ ipfs' = TRUE
    /\ StreamOpen(stream.cid)
    /\ UNCHANGED StreamIdle

\* res.status(500).json(...) in the catch: Express sets response headers in
\* it, which throws once the headers are sent (after the first res.write);
\* the throw leaves the async handler as a rejection nothing handles.
Catch(sent) == IF sent = 0 THEN "error" ELSE "unhandled"

StreamConnectFail ==
    /\ stream.pc = "connecting"
    /\ stream' = [stream EXCEPT !.pc = Catch(stream.sent)]
    /\ UNCHANGED ipfs
    /\ UNCHANGED StreamIdle

\* ipfs.cat yields a chunk: res.write sends the headers and the chunk.
StreamChunk ==
    /\ stream.pc = "streaming"
    /\ stream.sent < MaxChunks
    /\ stream' = [stream EXCEPT !.sent = @ + 1]
    /\ UNCHANGED ipfs
    /\ UNCHANGED StreamIdle

\* ipfs.cat is exhausted: res.end().
StreamEnd ==
    /\ stream.pc = "streaming"
    /\ stream' = [stream EXCEPT !.pc = "ended"]
    /\ UNCHANGED ipfs
    /\ UNCHANGED StreamIdle

\* ipfs.cat throws (content not found, store gone): the catch runs.
StreamFail ==
    /\ stream.pc = "streaming"
    /\ stream' = [stream EXCEPT !.pc = Catch(stream.sent)]
    /\ UNCHANGED ipfs
    /\ UNCHANGED StreamIdle

\* ------------------------------------------------------- the environment
FsEvent(d) ==
    /\ changes < MaxChanges
    /\ changes' = changes + 1
    /\ disk' = d
    /\ hist' = [r \in Runs |-> "dirty"]
    /\ last' = "none"
    /\ UNCHANGED <<stateFile, ipfs, runPc, absFiles, task, state, snap, added,
                   result, saves, crashed, badDir, scan, committed, tracks, stream>>

\* A subdirectory of MUSIC_DIR appears that the server may not read.
BreakDir ==
    /\ ~badDir
    /\ badDir' = TRUE
    /\ UNCHANGED <<disk, changes, stateFile, ipfs, runPc, absFiles, task, state,
                   snap, added, result, saves, hist, last, crashed, scan,
                   committed, tracks, stream>>

\* A file is created or rewritten with content of size s.
WriteFile(f, s) ==
    /\ IF f \in DOMAIN disk THEN disk[f] # s ELSE TRUE
    /\ FsEvent([g \in DOMAIN disk \cup {f} |-> IF g = f THEN s ELSE disk[g]])

RemoveFile(f) ==
    /\ f \in DOMAIN disk
    /\ FsEvent([g \in DOMAIN disk \ {f} |-> disk[g]])

\* No request of the kind has been made.
NoTracks == [pc |-> "idle", body |-> <<>>, busy |-> FALSE]
NoStream ==
    [pc |-> "idle", cid |-> NoCid, ct |-> "", seen |-> <<>>, sent |-> 0,
     busy |-> FALSE]

\* The process dies inside writeFileSync, after the file was truncated and k
\* tokens of the new text were written; it is started again.
Restart(st, k) ==
    /\ ~crashed.is
    /\ k < Len(Stringify(st))
    /\ stateFile' = [exists |-> TRUE, bytes |-> SubSeq(Stringify(st), 1, k)]
    /\ crashed' = [is |-> TRUE, old |-> LoadState(stateFile), new |-> st]
    /\ ipfs' = FALSE
    /\ runPc' = [r \in Runs |-> "idle"]
    /\ absFiles' = [r \in Runs |-> <<>>]
    /\ task' = [r \in Runs |-> [f \in Files |-> NoTask]]
    /\ state' = [r \in Runs |-> <<>>]
    /\ snap' = [r \in Runs |-> <<>>]
    /\ added' = [r \in Runs |-> 0]
    /\ result' = [r \in Runs |-> NoResult]
    /\ saves' = [r \in Runs |-> 0]
    /\ hist' = [r \in Runs |-> "dirty"]
    /\ last' = "none"
    /\ scan' = [r \in Runs |-> NoScan]
    /\ tracks' = NoTracks
    /\ stream' = NoStream
    /\ UNCHANGED <<disk, changes, badDir, committed>>

\* The crash in the saveState that follows the last task's ipfs.add.
AddOkCrash(r, f, k) ==
    /\ task[r][f].pc = "adding"
    /\ f \in DOMAIN disk
    /\ Outcome(runPc[r] = "running",
               Fill(AddOkTasks(r, f), absFiles[r], 1, AddOkState(r, f), disk)) = "resolved"
    /\ Restart(AddOkState(r, f), k)

\* The crash in the saveState of a run that found every file unchanged.
ScanCrash(r, k) ==
    /\ \/ SlotFree(r) /\ ipfs /\ NoRunActive
       \/ runPc[r] = "connecting"
    /\ Outcome(TRUE, Fill(ScanTasks, ScanOrder, 1, LoadState(stateFile), disk)) = "resolved"
    /\ Restart(LoadState(stateFile), k)

\* ------------------------------------------------------------------ Init
\* The catalogs a start may find: none, or one with an entry of the first
\* file, complete or (the fields of Track are optional) without its cid,
\* alone or followed by a complete entry of the second file.
InitCatalogs ==
    {<<NewEntry(1, c, s, TRUE)>> \o rest :
        c \in {NoCid, CidOf(1)}, s \in Sizes,
        rest \in {<<>>, <<NewEntry(2, CidOf(1), 1, TRUE)>>}}

\* A catalog file that an interrupted write left behind.
Truncated ==
    [exists |-> TRUE,
     bytes |-> SubSeq(Stringify(<<NewEntry(1, CidOf(1), 1, TRUE)>>), 1, 2)]

Init ==
    /\ disk = [f \in {Cover} \cup Files |-> 1]
    /\ changes = 0
    /\ stateFile \in {Missing, Truncated} \cup {SaveState(c) : c \in InitCatalogs}
    /\ ipfs = FALSE
    /\ runPc = [r \in Runs |-> "idle"]
    /\ absFiles = [r \in Runs |-> <<>>]
    /\ task = [r \in Runs |-> [f \in Files |-> NoTask]]
    /\ state = [r \in Runs |-> <<>>]
    /\ snap = [r \in Runs |-> <<>>]
    /\ added = [r \in Runs |-> 0]
    /\ result = [r \in Runs |-> NoResult]
    /\ saves = [r \in Runs |-> 0]
    /\ hist = [r \in Runs |-> "dirty"]
    /\ last = "none"
    /\ crashed = NoCrash
    /\ badDir = FALSE
    /\ scan = [r \in Runs |-> NoScan]
    /\ committed = LoadState(stateFile)
    /\ tracks = NoTracks
    /\ stream = NoStream

\* --------------------------------------------------------- specifications
OtherActions ==
    \/ \E r \in Runs : ConnectOk(r)
    \/ \E r \in Runs : ConnectFail(r)
    \/ \E r \in Runs, f \in Files : \E ok \in ParseResults(f) : ParseDone(r, f, ok)
    \/ \E r \in Runs, f \in Files : AddOk(r, f)
    \/ \E r \in Runs, f \in Files : AddFail(r, f)
    \/ \E f \in Files, s \in Sizes : WriteFile(f, s)
    \/ \E f \in Files : RemoveFile(f)

\* One sync request and everything that follows from it.
Next ==
    \/ Index(1)
    \/ OtherActions

Spec == Init /\ [][Next]_vars

\* A sequence of sync requests that the caller serializes: none arrives
\* while the answer to another is awaited.
NextSeq ==
    \/ \E r \in Runs : NoRunActive /\ Index(r)
    \/ OtherActions

SpecSeq == Init /\ [][NextSeq]_vars

\* One sync request, with the process dying inside saveState (once) and
\* starting again.
NextCrash ==
    \/ Next
    \/ \E r \in Runs, f \in Files, k \in 0..(NumFiles + 1) : AddOkCrash(r, f, k)
    \/ \E r \in Runs, k \in 0..(NumFiles + 1) : ScanCrash(r, k)

SpecCrash == Init /\ [][NextCrash]_vars

\* One sync request, with a subdirectory becoming unreadable at any time.
NextWalk ==
    \/ Next
    \/ BreakDir

SpecWalk == Init /\ [][NextWalk]_vars

\* Sync requests that arrive while another is being served; files may be
\* removed.
NextOverlap ==
    \/ \E r \in Runs : Index(r)
    \/ \E r \in Runs : ConnectOk(r)
    \/ \E r \in Runs : ConnectFail(r)
    \/ \E r \in Runs, f \in Files : \E ok \in ParseResults(f) : ParseDone(r, f, ok)
    \/ \E r \in Runs, f \in Files : AddOk(r, f)
    \/ \E r \in Runs, f \in Files : AddFail(r, f)
    \/ \E f \in Files : RemoveFile(f)

SpecOverlap == Init /\ [][NextOverlap]_vars

\* One sync request over a quiet file system, with a catalog request and a
\* stream request arriving at any time.
NextRead ==
    \/ Index(1)
    \/ \E r \in Runs : ConnectOk(r)
    \/ \E r \in Runs : ConnectFail(r)
    \/ \E r \in Runs, f \in Files : \E ok \in ParseResults(f) : ParseDone(r, f, ok)
    \/ \E r \in Runs, f \in Files : AddOk(r, f)
    \/ \E r \in Runs, f \in Files : AddFail(r, f)
    \/ Tracks
    \/ \E c \in Cids : Stream(c)
    \/ StreamConnectOk
    \/ StreamConnectFail
    \/ StreamChunk
    \/ StreamEnd
    \/ StreamFail

SpecRead == Init /\ [][NextRead]_vars

\* ------------------------------------------------------------------ claims
Persisted == LoadState(stateFile)

Pushed == {"adding", "done", "failedAdd"}

Decided == {"skipped", "parsing", "adding", "done", "failedAdd"}

Candidates(r) == {f \in Files : task[r][f].pc # "none"}

\* C1 (as amended).  If a sync run completes successfully and no file under
\* the media root changes from the start of that run on, the next sync run
\* (not overlapping it) returns added = 0 and issues no store push.
C1_IdempotentWhenUnchangedSinceStart ==
    \A r \in Runs :
        hist[r] = "afterCleanOk" =>
            /\ runPc[r] = "returned"
            /\ result[r].ok
            /\ result[r].added = 0
            /\ \A f \in Files : task[r][f].pc \notin Pushed

\* C1 witness: a run that came after a successful one, with nothing changed
\* since that one began, has answered after skipping a file.
C1_Witness ==
    \E r \in Runs :
        /\ hist[r] = "afterCleanOk"
        /\ runPc[r] = "returned"
        /\ \E f \in Files : task[r][f].pc = "skipped"

\* C1 (as stated).  If a sync run completes successfully and no file changes
\* after its completion, the next sync run returns added = 0 and issues no
\* store push.
C1_IdempotentWhenUnchangedAfterwards ==
    \A r \in Runs :
        hist[r] \in {"afterOk", "afterCleanOk"} =>
            /\ runPc[r] = "returned"
            /\ result[r].ok
            /\ result[r].added = 0
            /\ \A f \in Files : task[r][f].pc \notin Pushed

\* C2.  If the store push fails for some but not all candidate files of a
\* run, the run still succeeds: its caller receives total = the number of
\* candidates and added = the number of files whose push succeeded.
C2_PartialFailureIsolated ==
    \A r \in Runs :
        ( /\ runPc[r] = "returned"
          /\ \E f \in Files : task[r][f].pc = "failedAdd"
          /\ \E f \in Candidates(r) : task[r][f].pc # "failedAdd" )
        => /\ result[r].ok
           /\ result[r].total = Len(absFiles[r])
           /\ result[r].added = Cardinality({f \in Files : task[r][f].pc = "done"})

\* C3.  When a sync run ends, normally or by aborting, the persisted catalog
\* holds the new entry of every file pushed successfully during the run.
C3_CompletedWorkPersisted ==
    [][\A r \in Runs :
          (runPc[r] = "running" /\ runPc'[r] = "returned") =>
              \A f \in Files :
                  task'[r][f].pc = "done" =>
                      /\ HasEntry(LoadState(stateFile'), f)
                      /\ EntryOf(LoadState(stateFile'), f) = EntryOf(state'[r], f)]_vars

\* C4.  If saveState is interrupted in its write, a later loadState returns
\* the whole catalog from before the save or the whole new one.
C4_AtomicSave ==
    crashed.is => Persisted \in {crashed.old, crashed.new}

\* C5.  Within one sync run at most 2 per-file tasks are in flight at any
\* moment, so at most 2 store pushes are outstanding.
C5_AtMostTwoInFlight ==
    \A r \in Runs :
        /\ Cardinality({f \in Files : task[r][f].pc \in {"parsing", "adding"}}) <= 2
        /\ Cardinality({f \in Files : task[r][f].pc = "adding"}) <= 2

\* C5 witness: two pushes are outstanding while a third file waits.
C5_Witness ==
    \E r \in Runs :
        /\ Cardinality({f \in Files : task[r][f].pc = "adding"}) = 2
        /\ \E f \in Files : task[r][f].pc = "queued"

\* C6.  A worker skips a file (no extraction, no push, no catalog change, no
\* increment of added) if and only if the catalog holds an entry for the
\* file's path with a non-empty cid and the file's current size; every other
\* file is ingested.
C6_SkipIffUnchanged ==
    \A r \in Runs :
        /\ \A f \in Files :
              task[r][f].pc \in Decided =>
                  /\ (task[r][f].pc = "skipped") <=>
                        (\E e \in EntryOf(snap[r], f) :
                             e.cid # NoCid /\ e.size = task[r][f].size)
                  /\ task[r][f].pc = "skipped" =>
                        EntryOf(state[r], f) = EntryOf(snap[r], f)
        /\ added[r] = Cardinality({f \in Files : task[r][f].pc = "done"})

\* C6 witness: in one run a file was skipped, a file whose entry has no cid
\* or another size is being ingested, and a file has been ingested.
C6_Witness ==
    \E r \in Runs :
        /\ \E f \in Files : task[r][f].pc = "skipped"
        /\ \E f \in Files : task[r][f].pc = "done"
        /\ \E f \in Files : task[r][f].pc \in Pushed /\ HasEntry(snap[r], f)

\* C7.  If the stat, the read or the push of a file fails during a run, the
\* entry recorded for the file's path is the same after the run as before
\* it, in the run's catalog and in the persisted one.
C7_FailedEntryUntouched ==
    \A r \in Runs : \A f \in Files :
        task[r][f].pc \in {"failedStat", "failedAdd"} =>
            /\ EntryOf(state[r], f) = EntryOf(snap[r], f)
            /\ runPc[r] = "returned" => EntryOf(Persisted, f) = EntryOf(snap[r], f)

\* C7 witness: a run has ended after the push of a file with an entry failed.
C7_Witness ==
    \E r \in Runs : \E f \in Files :
        /\ task[r][f].pc = "failedAdd"
        /\ HasEntry(snap[r], f)
        /\ runPc[r] = "returned"

\* C8.  Every sync run calls saveState exactly once, at its end.
C8_SavedOncePerRun ==
    \A r \in Runs : runPc[r] = "returned" => saves[r] = 1

\* C9.  A sync run does not return, with a result or an error, before every
\* dispatched per-file task has finished or failed.
C9_JoinBeforeReturn ==
    \A r \in Runs :
        runPc[r] = "returned" =>
            \A f \in Files : task[r][f].pc \notin {"queued", "parsing", "adding"}

\* C10.  Across non-overlapping sync runs, a path that has an entry in the
\* persisted catalog keeps having one, also when its file has left the disk.
C10_NoDeletion ==
    [][\A f \in Files :
          HasEntry(LoadState(stateFile), f) => HasEntry(LoadState(stateFile'), f)]_vars

\* C10 witness: a run has saved, and the persisted catalog still holds the
\* entry of a file that was not on disk for the run to find.
C10_Witness ==
    \E r \in Runs : \E f \in Files :
        /\ runPc[r] = "returned"
        /\ result[r].ok
        /\ saves[r] = 1
        /\ f \notin Range(absFiles[r])
        /\ f \notin DOMAIN disk
        /\ HasEntry(Persisted, f)

\* C11: metadata extraction is best effort.  A task whose parseFile has
\* settled, resolved or rejected, goes on to its one call of ipfs.add; and
\* when the push of a file whose parseFile rejected succeeds, the run's
\* catalog holds for the file an entry with the cid of the pushed content,
\* the size and the mime set and no descriptive metadata, and added has
\* been incremented.
C11_MetadataBestEffort ==
    [][\A r \in Runs, f \in Files :
          /\ (task[r][f].pc = "parsing" /\ task'[r][f].pc # "parsing")
                => (task'[r][f].pc = "adding" /\ task'[r][f].tries = 1)
          /\ (task[r][f].pc = "adding" /\ ~task[r][f].meta /\ task'[r][f].pc = "done")
                => /\ EntryOf(state'[r], f) =
                        {[relativePath |-> f, cid |-> CidOf(disk[f]),
                          size |-> task[r][f].size, meta |-> FALSE,
                          mime |-> MimeLookup(f)]}
                   /\ added'[r] = added[r] + 1]_vars

C11_Witness ==
    \E r \in Runs, f \in Files :
        /\ task[r][f].pc = "done"
        /\ ~task[r][f].meta
        /\ \E e \in EntryOf(state[r], f) : ~e.meta /\ e.cid # NoCid

\* C12: a failure of the retrieval from the content store, before the first
\* byte or after some bytes were written, ends in an error response and
\* never in an error that nothing handles.
C12_StreamFailureAnswered == stream.pc # "unhandled"

\* The Content-Type of a stream response as the catalog vals determines it
\* for the cid c.
FirstMime(vals, c) ==
    LET idx == {i \in 1..Len(vals) : vals[i].cid = c}
    IN  IF idx = {} THEN "audio/mpeg"
        ELSE vals[CHOOSE i \in idx : \A j \in idx : i <= j].mime

\* C13: the Content-Type that a stream request sets is the mime of the first
\* entry of the persisted catalog whose cid is the requested one, and
\* audio/mpeg when no entry has that cid.
C13_StreamMime ==
    [][(stream.ct = "" /\ stream'.ct # "")
          => stream'.ct = FirstMime(committed, stream'.cid)]_vars

C13_Witness ==
    /\ stream.ct = "audio/x-flac"
    /\ \E i, j \in 1..Len(stream.seen) :
          /\ i < j
          /\ stream.seen[i].cid = stream.cid
          /\ stream.seen[j].cid = stream.cid
          /\ stream.seen[j].mime = "audio/mpeg"

\* C14: a catalog request or a stream request observes exactly the catalog
\* of the last save that completed, also while a sync run is in progress
\* and holds entries that are not saved.
C14_ReadersSeePersisted ==
    [][/\ (tracks.pc = "idle" /\ tracks'.pc = "answered")
             => tracks'.body = committed
       /\ (stream.pc # "streaming" /\ stream'.pc = "streaming")
             => stream'.seen = committed]_vars

C14_Witness ==
    /\ tracks.pc = "answered" /\ tracks.busy /\ tracks.body = committed
    /\ stream.pc = "streaming" /\ stream.busy /\ stream.seen = committed

\* C15: whatever the interleaving of file modifications with the stat and
\* the push of a file, the entry that a run writes for it records as size
\* the size of the content that was pushed to obtain its cid.
C15_SizeMatchesContent ==
    \A r \in Runs, f \in Files :
        task[r][f].pc = "done"
            => \A e \in EntryOf(state[r], f) : e.cid = CidOf(e.size)

\* C16: a catalog file that is missing or cannot be parsed is an empty
\* start.  loadState gives the empty catalog, no candidate of the run is
\* skipped, and the run fails only if one of its tasks failed.
C16_CorruptIsEmptyStart ==
    \A r \in Runs :
        scan[r].loadErr
            => /\ snap[r] = <<>>
               /\ \A f \in Candidates(r) : task[r][f].pc # "skipped"
               /\ (runPc[r] = "returned" /\ ~result[r].ok)
                     => \E f \in Files : task[r][f].pc \in Failed

C16_Witness ==
    \E r \in Runs :
        /\ scan[r].loadErr
        /\ stateFile = Truncated
        /\ task[r][1].pc = "done"
        /\ task[r][1].size = 1

\* C17: an error on one directory entry during the walk does not abort the
\* walk or the run.  The run that meets it still has every audio file on
\* disk as a candidate, and it does not end in failure without a failed
\* task.
C17_WalkErrorIsolated ==
    [][\A r \in Runs :
          (~scan[r].walkErr /\ scan'[r].walkErr)
              => /\ absFiles'[r] = ScanOrder
                 /\ ~(runPc'[r] = "returned" /\ ~result'[r].ok)]_vars

\* C18: a run loads the catalog once, before any task starts, and the
\* decision on a file depends only on the entry that this snapshot holds for
\* the file's path.  What other tasks have written leaves the entry that a
\* task still queued will read as the snapshot had it, and a task that has
\* decided was skipped exactly when the snapshot's entry says unchanged.
C18_SingleSnapshot ==
    \A r \in Runs :
        runPc[r] = "running"
            => /\ scan[r].loads = 1
               /\ \A f \in Candidates(r) :
                     /\ task[r][f].pc = "queued"
                           => EntryOf(state[r], f) = EntryOf(snap[r], f)
                     /\ task[r][f].pc \in Decided
                           => (task[r][f].pc = "skipped"
                                 <=> Unchanged(EntryOf(snap[r], f), task[r][f].size))

C18_Witness ==
    \E r \in Runs :
        /\ task[r][1].pc = "done"
        /\ task[r][2].pc \in InFlight
        /\ task[r][3].pc \in InFlight
        /\ state[r] # snap[r]

\* C19: sync runs that overlap are not serialized.  Each run starts from
\* the catalog persisted at its own start and, at its end, writes its own
\* copy: the snapshot it loaded and the entries its own tasks wrote, whatever
\* another run has saved meanwhile.  (The witness is a lost update.)
C19_EachRunSavesItsOwnCopy ==
    [][\A r \in Runs :
          /\ (runPc[r] \in {"idle", "connecting"} /\ runPc'[r] \in {"running", "returned"}
               /\ ~scan'[r].walkErr)
                => snap'[r] = committed
          /\ saves'[r] > saves[r]
                => /\ LoadState(stateFile') = state'[r]
                   /\ \A e \in Range(LoadState(stateFile')) :
                         \/ e \in Range(snap'[r])
                         \/ task'[r][e.relativePath].pc = "done"]_vars

\* Two runs overlapped and both succeeded, and an entry that one of them
\* saved is not in the persisted catalog.
C19_LostUpdate ==
    \E r, q \in Runs, f \in Files :
        /\ r # q
        /\ runPc[r] = "returned" /\ result[r].ok /\ saves[r] = 1
        /\ runPc[q] = "returned" /\ result[q].ok /\ saves[q] = 1
        /\ task[r][f].pc = "done"
        /\ ~HasEntry(Persisted, f)

\* The tasks that got as far as deciding to ingest their file.
Ingesting == {"parsing", "adding", "done", "failedAdd"}

\* C20: within a run no file gets more than one push attempt, and a file
\* whose push failed in a run is ingested again by the next run, provided
\* that run finds the file with the size the failed run saw: its task is
\* not skipped.
C20_RetriedWhenUnchanged ==
    \A r \in Runs, f \in Files :
        /\ task[r][f].tries <= 1
        /\ \A p \in scan[r].retry :
              (p[1] = f /\ task[r][f].pc \in Decided /\ task[r][f].size = p[2])
                  => task[r][f].pc \in Ingesting

C20_Witness ==
    \E r \in Runs, f \in Files :
        /\ <<f, task[r][f].size>> \in scan[r].retry
        /\ task[r][f].pc \in Pushed
        /\ task[r][f].tries = 1

\* C20 as stated, whatever has happened to the file since: when the next
\* run decides on a file whose push failed in the run before, it ingests it.
C20_RetriedByNextRun ==
    \A r \in Runs, f \in Files :
        /\ task[r][f].tries <= 1
        /\ \A p \in scan[r].retry :
              (p[1] = f /\ task[r][f].pc \in Decided)
                  => task[r][f].pc \in Ingesting
====
